---- MODULE Spec2Model ----
(***************************************************************************)
(* Client-side state and synchronisation logic of the todo tracker:        *)
(*   src/src/client/components/TodoList.tsx        (TodoList)              *)
(*   src/src/client/components/CreateTodoForm.tsx  (CreateTodoForm)        *)
(* together with the task store gateway the two components talk to         *)
(* (api.todo.getAll / create / delete, api.todoStatus.update).  The        *)
(* gateway's routers are not part of the sources at hand; they are         *)
(* modelled from the interface table of the specification (section 6).     *)
(*                                                                         *)
(* The query and mutation hooks are the ones of tRPC v10 (api.useContext)  *)
(* on top of @tanstack/react-query v4:                                     *)
(*   - useQuery keeps one cached `data` value, undefined until the first   *)
(*     successful fetch and kept across a failed re-fetch;                 *)
(*   - getAll.refetch() cancels a list fetch that is in flight and starts  *)
(*     a new one (cancelRefetch defaults to true), except that while the   *)
(*     query has no data yet it joins the fetch already in flight;         *)
(*   - the onSuccess option of useMutation runs for every mutation issued  *)
(*     through the hook, isLoading reflects only the latest one.           *)
(***************************************************************************)
EXTENDS Integers, Sequences, FiniteSets, TLC

\* ---- bounds -------------------------------------------------------------
MaxMuts == 2      \* mutations (create / update / delete) issued in one run
InitTodos == 2    \* tasks in the gateway's collection when the page loads
MaxLen == 3       \* length of the task sequences fed to the filter alone

\* ---- values -------------------------------------------------------------
Statuses == {"pending", "completed"}
Filters == {"all"} \cup Statuses
Undefined == "undefined"          \* a missing field (todo?.status)
Bodies == {"a"}                   \* texts the user types
Keys == {"Enter", "Escape"}       \* keys pressed in the input

VARIABLES
  store,          \* gateway: the task collection, in its return order
  nextId,         \* gateway: the identifier the next created task gets
  filterStatus,   \* TodoList: useState('all')
  queryData,      \* getAll query cache: [defined, value]
  fetch,          \* the list request of the getAll query: [phase, result, seq]
  todoBody,       \* CreateTodoForm: useState('')
  muts,           \* every mutation issued so far, with how far it has got
  createCurrent,  \* the create mutation the useMutation observer tracks
  store0,         \* history: the gateway's collection when the page loaded
  answered        \* history: the answer confirm() gave in the last step

vars == <<store, nextId, filterStatus, queryData, fetch, todoBody, muts,
          createCurrent, store0, answered>>

\* A mutation's phase: "sent" (request on its way), "ok" (served, response on
\* its way), "done" / "failed" (settled at the client), "shown" (done, and a
\* list response has landed since).
InFlight == {"sent", "ok"}
Succeeded == {"done", "shown"}

nextMid == Cardinality(muts) + 1

\* ---- pure helpers -------------------------------------------------------
Ids(s) == {s[i].id : i \in 1..Len(s)}

RECURSIVE SeqsUpTo(_, _)
SeqsUpTo(S, n) ==
  IF n = 0 THEN {<<>>}
  ELSE LET shorter == SeqsUpTo(S, n - 1)
       IN shorter \cup {Append(s, x) : s \in {t \in shorter : Len(t) = n - 1}, x \in S}

\* The task sequence of the statuses ss: the i-th task has identifier i.
Numbered(ss) == [i \in 1..Len(ss) |-> [id |-> i, body |-> "a", status |-> ss[i]]]

\* n tasks, pending and completed in turn.
Alternating(n) ==
  Numbered([i \in 1..n |-> IF i % 2 = 1 THEN "pending" ELSE "completed"])

\* ---- TodoList: derived values -------------------------------------------
\* const { data: todos = [] } = api.todo.getAll.useQuery(...)
todos == IF queryData.defined THEN queryData.value ELSE <<>>

\* A filter callback that lets a task without a status through.
MatchesFilterLoose(todo, f) ==
  f = "all" \/ todo.status = f \/ todo.status = Undefined

\* The callback handed to todos.filter.
MatchesFilter(todo, f) == IF f = "all" THEN TRUE ELSE todo.status = f

\* Array.prototype.filter: the matching elements, in the array's order.
RECURSIVE FilterTodos(_, _)
FilterTodos(ts, f) ==
  IF ts = <<>> THEN <<>>
  ELSE LET rest == FilterTodos(Tail(ts), f)
       IN IF MatchesFilter(Head(ts), f) THEN <<Head(ts)>> \o rest ELSE rest

filteredTodos == FilterTodos(todos, filterStatus)

\* ---- requests -----------------------------------------------------------
\* useMutation(...).mutate(input): the mutation starts at once, in parallel
\* with the ones already running.  `row` records the row the user activated,
\* `via` the control that issued the request, and `stale` whether an earlier
\* request for the same row had not yet been re-read into the list.
mutate(input, row, via) ==
  [mid |-> nextMid, kind |-> input.kind, row |-> row, via |-> via,
   id |-> input.id, status |-> input.status, body |-> input.body,
   phase |-> "sent",
   stale |-> \E m \in muts : m.row = row /\ row # 0 /\ m.phase \in {"sent", "ok", "done"}]

\* apiContext.todo.getAll.refetch()
refetch(f) ==
  IF f.phase # "idle" /\ ~queryData.defined
    THEN f
    ELSE [phase |-> "sent", result |-> <<>>, seq |-> f.seq + 1]

\* A tab change that also asks for the list again.
handleTabChangeRefetch(value) ==
  /\ filterStatus' = value
  /\ fetch' = refetch(fetch)
  /\ answered' = "none"
  /\ UNCHANGED <<store, nextId, queryData, todoBody, muts, createCurrent, store0>>

\* ---- TodoList: handlers -------------------------------------------------
handleTabChange(value) ==
  /\ filterStatus' = value
  /\ answered' = "none"
  /\ UNCHANGED <<store, nextId, queryData, fetch, todoBody, muts,
                 createCurrent, store0>>

\* A toggle that asks for `completed` whatever the row shows.
handleClickAlwaysCompleted(id, currentStatus) ==
  [kind |-> "update", id |-> id, status |-> "completed", body |-> ""]

\* A toggle that sends the status the row already has.
handleClickKeepStatus(id, currentStatus) ==
  [kind |-> "update", id |-> id, status |-> currentStatus, body |-> ""]

\* The input of the update request issued for a row.
handleClickToUpdateStatus(id, currentStatus) ==
  LET newStatus == IF currentStatus = "pending" THEN "completed" ELSE "pending"
  IN [kind |-> "update", id |-> id, status |-> newStatus, body |-> ""]

\* A row click that re-fetches the list as it sends the update.
RowClickEager(i) ==
  /\ nextMid <= MaxMuts
  /\ i \in 1..Len(filteredTodos)
  /\ LET todo == filteredTodos[i]
     IN muts' = muts \cup
          {mutate(handleClickToUpdateStatus(todo.id, todo.status), todo.id, "row")}
  /\ fetch' = refetch(fetch)
  /\ answered' = "none"
  /\ UNCHANGED <<store, nextId, filterStatus, queryData, todoBody,
                 createCurrent, store0>>

\* <li onClick> of the i-th rendered row.
RowClick(i) ==
  /\ nextMid <= MaxMuts
  /\ i \in 1..Len(filteredTodos)
  /\ LET todo == filteredTodos[i]
     IN muts' = muts \cup
          {mutate(handleClickToUpdateStatus(todo.id, todo.status), todo.id, "row")}
  /\ answered' = "none"
  /\ UNCHANGED <<store, nextId, filterStatus, queryData, fetch, todoBody,
                 createCurrent, store0>>

\* A delete handler that does not look at the answer.
handleDeleteItemAnyway(id, answer) ==
  {[kind |-> "delete", id |-> id, status |-> Undefined, body |-> ""]}

\* A delete handler that names the neighbouring task in its request.
handleDeleteItemNeighbour(id, answer) ==
  IF answer THEN {[kind |-> "delete", id |-> id + 1, status |-> Undefined, body |-> ""]}
  ELSE {}

\* The inputs of the delete requests issued for a row, given the answer to
\* confirm('Delete this todo?').
handleDeleteItem(id, answer) ==
  IF answer THEN {[kind |-> "delete", id |-> id, status |-> Undefined, body |-> ""]}
  ELSE {}

\* A delete affordance whose click also reaches the row's own handler.
DeleteClickBubbling(i, answer) ==
  /\ nextMid <= MaxMuts
  /\ i \in 1..Len(filteredTodos)
  /\ LET todo == filteredTodos[i]
         deletes == {mutate(r, todo.id, "xmark") : r \in handleDeleteItem(todo.id, answer)}
         toggle == mutate(handleClickToUpdateStatus(todo.id, todo.status), todo.id, "row")
     IN muts' = muts \cup deletes
                  \cup {[toggle EXCEPT !.mid = nextMid + Cardinality(deletes)]}
  /\ answered' = IF answer THEN "yes" ELSE "no"
  /\ UNCHANGED <<store, nextId, filterStatus, queryData, fetch, todoBody,
                 createCurrent, store0>>

\* <XMarkIcon onClick> of the i-th rendered row: stopPropagation keeps the
\* click from the row's own handler.
DeleteClick(i, answer) ==
  /\ answer => nextMid <= MaxMuts
  /\ i \in 1..Len(filteredTodos)
  /\ LET todo == filteredTodos[i]
     IN muts' = muts \cup
          {mutate(r, todo.id, "xmark") : r \in handleDeleteItem(todo.id, answer)}
  /\ answered' = IF answer THEN "yes" ELSE "no"
  /\ UNCHANGED <<store, nextId, filterStatus, queryData, fetch, todoBody,
                 createCurrent, store0>>

\* ---- CreateTodoForm -----------------------------------------------------
\* isLoading of the create hook: its latest mutation has not settled.
isCreatingTodo == \E m \in muts : m.mid = createCurrent /\ m.phase \in InFlight

createTodo(body) == [kind |-> "create", id |-> 0, status |-> Undefined, body |-> body]

FormState == [muts |-> muts, createCurrent |-> createCurrent, todoBody |-> todoBody]

\* A key handler that leaves the text in the input after submitting it.
handleKeyDownKeep(key) ==
  IF key = "Enter"
    THEN [muts |-> muts \cup {mutate(createTodo(todoBody), 0, "enter")},
          createCurrent |-> nextMid, todoBody |-> todoBody]
    ELSE FormState

\* A key handler that submits only while no create request is in flight.
handleKeyDownGated(key) ==
  IF key = "Enter" /\ ~isCreatingTodo
    THEN [muts |-> muts \cup {mutate(createTodo(todoBody), 0, "enter")},
          createCurrent |-> nextMid, todoBody |-> ""]
    ELSE FormState

\* handleKeyDown: what the form's state becomes on a key press.
handleKeyDown(key) ==
  IF key = "Enter"
    THEN [muts |-> muts \cup {mutate(createTodo(todoBody), 0, "enter")},
          createCurrent |-> nextMid, todoBody |-> ""]
    ELSE FormState

\* A click handler that submits an empty body.
onClickAddEmpty ==
  [muts |-> muts \cup {mutate(createTodo(""), 0, "button")},
   createCurrent |-> nextMid, todoBody |-> ""]

\* The Add button's onClick.
onClickAdd ==
  [muts |-> muts \cup {mutate(createTodo(todoBody), 0, "button")},
   createCurrent |-> nextMid, todoBody |-> ""]

\* An Add button that is never disabled.
buttonClickUngated ==
  [muts |-> muts \cup {mutate(createTodo(todoBody), 0, "button")},
   createCurrent |-> nextMid, todoBody |-> ""]

\* A click on the Add button: a disabled button dispatches no click.
buttonClick == IF isCreatingTodo THEN FormState ELSE onClickAdd

SetForm(f) ==
  /\ muts' = f.muts
  /\ createCurrent' = f.createCurrent
  /\ todoBody' = f.todoBody

\* <input onChange>: setTodoBody(e.target.value)
onChange(value) ==
  /\ value # todoBody
  /\ todoBody' = value
  /\ answered' = "none"
  /\ UNCHANGED <<store, nextId, filterStatus, queryData, fetch, muts,
                 createCurrent, store0>>

\* <input onKeyDown>
KeyDown(key) ==
  /\ key = "Enter" => nextMid <= MaxMuts
  /\ SetForm(handleKeyDown(key))
  /\ answered' = "none"
  /\ UNCHANGED <<store, nextId, filterStatus, queryData, fetch, store0>>

\* <button disabled={isCreatingTodo} onClick>
AddClick ==
  /\ nextMid <= MaxMuts
  /\ SetForm(buttonClick)
  /\ answered' = "none"
  /\ UNCHANGED <<store, nextId, filterStatus, queryData, fetch, store0>>

\* ---- task store gateway (interface table of the specification) ---------
\* create: the gateway assigns the identifier; a new task is pending.
GatewayCreate(s, id, body) == Append(s, [id |-> id, body |-> body, status |-> "pending"])

\* updateStatus: sets the status of the task with that identifier.
GatewayUpdate(s, id, status) ==
  [i \in 1..Len(s) |-> IF s[i].id = id THEN [s[i] EXCEPT !.status = status] ELSE s[i]]

\* delete: removes the task; idempotent from the caller's perspective.
GatewayDelete(s, id) == SelectSeq(s, LAMBDA t : t.id # id)

\* list with both statuses: the whole collection, in the store's order.
GatewayList(s) == SelectSeq(s, LAMBDA t : t.status \in Statuses)

\* The gateway serves mutation m.
GatewayHandle(m) ==
  /\ m \in muts /\ m.phase = "sent"
  /\ store' = CASE m.kind = "create" -> GatewayCreate(store, nextId, m.body)
                [] m.kind = "update" -> GatewayUpdate(store, m.id, m.status)
                [] m.kind = "delete" -> GatewayDelete(store, m.id)
  /\ nextId' = IF m.kind = "create" THEN nextId + 1 ELSE nextId
  /\ muts' = (muts \ {m}) \cup
       {[m EXCEPT !.phase = "ok",
                  !.id = IF m.kind = "create" THEN nextId ELSE m.id]}
  /\ answered' = "none"
  /\ UNCHANGED <<filterStatus, queryData, fetch, todoBody, createCurrent, store0>>

\* The gateway serves the list request in flight.
GatewayServeList ==
  /\ fetch.phase = "sent"
  /\ fetch' = [fetch EXCEPT !.phase = "ok", !.result = GatewayList(store)]
  /\ answered' = "none"
  /\ UNCHANGED <<store, nextId, filterStatus, queryData, todoBody, muts,
                 createCurrent, store0>>

\* ---- responses observed by the client -----------------------------------
\* A success callback that also puts the filter back to `all`.
onSuccessResetFilter(m) ==
  /\ m \in muts /\ m.phase = "ok"
  /\ muts' = (muts \ {m}) \cup {[m EXCEPT !.phase = "done"]}
  /\ fetch' = refetch(fetch)
  /\ filterStatus' = "all"
  /\ answered' = "none"
  /\ UNCHANGED <<store, nextId, queryData, todoBody, createCurrent, store0>>

\* onSuccess of the three useMutation hooks: apiContext.todo.getAll.refetch()
onSuccess(m) ==
  /\ m \in muts /\ m.phase = "ok"
  /\ muts' = (muts \ {m}) \cup {[m EXCEPT !.phase = "done"]}
  /\ fetch' = refetch(fetch)
  /\ answered' = "none"
  /\ UNCHANGED <<store, nextId, filterStatus, queryData, todoBody,
                 createCurrent, store0>>

\* A failure handler that re-fetches the list.
onErrorRefetch(m) ==
  /\ m \in muts /\ m.phase = "sent"
  /\ muts' = (muts \ {m}) \cup {[m EXCEPT !.phase = "failed"]}
  /\ fetch' = refetch(fetch)
  /\ answered' = "none"
  /\ UNCHANGED <<store, nextId, filterStatus, queryData, todoBody,
                 createCurrent, store0>>

\* Mutation m fails (the gateway is unavailable): the hooks pass no onError.
onError(m) ==
  /\ m \in muts /\ m.phase = "sent"
  /\ muts' = (muts \ {m}) \cup {[m EXCEPT !.phase = "failed"]}
  /\ answered' = "none"
  /\ UNCHANGED <<store, nextId, filterStatus, queryData, fetch, todoBody,
                 createCurrent, store0>>

\* The list response lands and is merged into the cached data: the rows
\* the response lacks are kept in front of it.
FetchLandMerge ==
  /\ fetch.phase = "ok"
  /\ queryData' = [defined |-> TRUE,
                   value |-> SelectSeq(todos, LAMBDA t : t.id \notin Ids(fetch.result))
                               \o fetch.result]
  /\ fetch' = [fetch EXCEPT !.phase = "idle", !.result = <<>>]
  /\ muts' = {IF m.phase = "done" THEN [m EXCEPT !.phase = "shown"] ELSE m : m \in muts}
  /\ answered' = "none"
  /\ UNCHANGED <<store, nextId, filterStatus, todoBody, createCurrent, store0>>

\* The list response lands and the client keeps it in reverse order.
FetchLandReversed ==
  /\ fetch.phase = "ok"
  /\ queryData' = [defined |-> TRUE,
                   value |-> [i \in 1..Len(fetch.result) |->
                                fetch.result[Len(fetch.result) + 1 - i]]]
  /\ fetch' = [fetch EXCEPT !.phase = "idle", !.result = <<>>]
  /\ muts' = {IF m.phase = "done" THEN [m EXCEPT !.phase = "shown"] ELSE m : m \in muts}
  /\ answered' = "none"
  /\ UNCHANGED <<store, nextId, filterStatus, todoBody, createCurrent, store0>>

\* The list response lands: the cached data is replaced by it.
FetchLand ==
  /\ fetch.phase = "ok"
  /\ queryData' = [defined |-> TRUE, value |-> fetch.result]
  /\ fetch' = [fetch EXCEPT !.phase = "idle", !.result = <<>>]
  /\ muts' = {IF m.phase = "done" THEN [m EXCEPT !.phase = "shown"] ELSE m : m \in muts}
  /\ answered' = "none"
  /\ UNCHANGED <<store, nextId, filterStatus, todoBody, createCurrent, store0>>

\* The list request fails and the cached data is dropped.
FetchFailClear ==
  /\ fetch.phase = "sent"
  /\ fetch' = [fetch EXCEPT !.phase = "idle"]
  /\ queryData' = [defined |-> FALSE, value |-> <<>>]
  /\ answered' = "none"
  /\ UNCHANGED <<store, nextId, filterStatus, todoBody, muts,
                 createCurrent, store0>>

\* The list request fails (the gateway is unavailable): the cached data
\* stays as it is.
FetchFail ==
  /\ fetch.phase = "sent"
  /\ fetch' = [fetch EXCEPT !.phase = "idle"]
  /\ answered' = "none"
  /\ UNCHANGED <<store, nextId, filterStatus, queryData, todoBody, muts,
                 createCurrent, store0>>

\* ---- specification ------------------------------------------------------
InitStores == {Alternating(n) : n \in 0..InitTodos}

\* The page has just been mounted: TodoList's query has issued its first
\* list request, nothing has been typed.
Init ==
  /\ store \in InitStores
  /\ store0 = store
  /\ nextId = Len(store) + 1
  /\ filterStatus = "all"
  /\ queryData = [defined |-> FALSE, value |-> <<>>]
  /\ fetch = [phase |-> "sent", result |-> <<>>, seq |-> 1]
  /\ todoBody = ""
  /\ muts = {}
  /\ createCurrent = 0
  /\ answered = "none"

Next ==
  \/ \E value \in Filters : handleTabChange(value)
  \/ \E i \in 1..(InitTodos + MaxMuts) : RowClick(i)
  \/ \E i \in 1..(InitTodos + MaxMuts), answer \in BOOLEAN : DeleteClick(i, answer)
  \/ \E value \in Bodies \cup {""} : onChange(value)
  \/ \E key \in Keys : KeyDown(key)
  \/ AddClick
  \/ \E m \in muts : GatewayHandle(m)
  \/ GatewayServeList
  \/ \E m \in muts : onSuccess(m)
  \/ \E m \in muts : onError(m)
  \/ FetchLand
  \/ FetchFail

Spec == Init /\ [][Next]_vars

\* The three kinds of mutation and the re-fetches they cause: the filter
\* stays as it is, every prompt is confirmed and nothing is typed.
NextSync ==
  \/ \E value \in Filters : handleTabChange(value)
  \/ \E i \in 1..(InitTodos + MaxMuts) : RowClick(i)
  \/ \E i \in 1..(InitTodos + MaxMuts) : DeleteClick(i, TRUE)
  \/ KeyDown("Enter")
  \/ AddClick
  \/ \E m \in muts : GatewayHandle(m)
  \/ GatewayServeList
  \/ \E m \in muts : onSuccess(m)
  \/ \E m \in muts : onError(m)
  \/ FetchLand
  \/ FetchFail

SpecSync == Init /\ [][NextSync]_vars

\* Every request succeeds: toggles, confirmed deletes and creates with
\* their responses and the re-fetches they cause, no failure of any kind.
NextAllSucceed ==
  \/ \E i \in 1..(InitTodos + MaxMuts) : RowClick(i)
  \/ \E i \in 1..(InitTodos + MaxMuts) : DeleteClick(i, TRUE)
  \/ KeyDown("Enter")
  \/ AddClick
  \/ \E m \in muts : GatewayHandle(m)
  \/ GatewayServeList
  \/ \E m \in muts : onSuccess(m)
  \/ FetchLand

SpecAllSucceed == Init /\ [][NextAllSucceed]_vars

\* Tab changes among typing, creates and toggles in flight: every request
\* succeeds and no row is deleted.
NextTabs ==
  \/ \E value \in Filters : handleTabChange(value)
  \/ \E value \in Bodies \cup {""} : onChange(value)
  \/ KeyDown("Enter")
  \/ \E i \in 1..(InitTodos + MaxMuts) : RowClick(i)
  \/ \E m \in muts : GatewayHandle(m)
  \/ GatewayServeList
  \/ \E m \in muts : onSuccess(m)
  \/ FetchLand

SpecTabs == Init /\ [][NextTabs]_vars

\* The filter alone, over any cached task sequence, tasks with a missing
\* status included.
TaskSeqs == {Numbered(ss) : ss \in SeqsUpTo(Statuses \cup {Undefined}, MaxLen)}

InitFilter ==
  /\ queryData \in {[defined |-> TRUE, value |-> ts] : ts \in TaskSeqs}
                    \cup {[defined |-> FALSE, value |-> <<>>]}
  /\ store = <<>>
  /\ store0 = <<>>
  /\ nextId = 1
  /\ filterStatus = "all"
  /\ fetch = [phase |-> "idle", result |-> <<>>, seq |-> 1]
  /\ todoBody = ""
  /\ muts = {}
  /\ createCurrent = 0
  /\ answered = "none"

NextFilter == \E value \in Filters : handleTabChange(value)

SpecFilter == InitFilter /\ [][NextFilter]_vars

\* The task list alone: nothing is typed or submitted.
NextList ==
  \/ \E value \in Filters : handleTabChange(value)
  \/ \E i \in 1..(InitTodos + MaxMuts) : RowClick(i)
  \/ \E i \in 1..(InitTodos + MaxMuts), answer \in BOOLEAN : DeleteClick(i, answer)
  \/ \E m \in muts : GatewayHandle(m)
  \/ GatewayServeList
  \/ \E m \in muts : onSuccess(m)
  \/ \E m \in muts : onError(m)
  \/ FetchLand
  \/ FetchFail

SpecList == Init /\ [][NextList]_vars

\* The creation form alone: no row is activated, no tab selected.
NextForm ==
  \/ \E value \in Bodies \cup {""} : onChange(value)
  \/ \E key \in Keys : KeyDown(key)
  \/ AddClick
  \/ \E m \in muts : GatewayHandle(m)
  \/ GatewayServeList
  \/ \E m \in muts : onSuccess(m)
  \/ \E m \in muts : onError(m)
  \/ FetchLand
  \/ FetchFail

SpecForm == Init /\ [][NextForm]_vars

\* ==== claims =============================================================

\* The positions of ts whose task is to be shown under filter f.
Shown(ts, f) == {i \in 1..Len(ts) : f = "all" \/ ts[i].status = f}

\* C1: the rendered list is exactly the subsequence of the snapshot whose
\* status equals the active filter (the whole snapshot under `all`), in the
\* snapshot's order: its k-th row is the snapshot's k-th shown task.  A task
\* without a status is rendered under `all` only.
C1_FilteredView ==
  LET idx == Shown(todos, filterStatus)
  IN /\ Len(filteredTodos) = Cardinality(idx)
     /\ \A i \in idx : filteredTodos[Cardinality({j \in idx : j <= i})] = todos[i]
     /\ filterStatus = "all" => filteredTodos = todos
     /\ \A k \in 1..Len(filteredTodos) :
          filteredTodos[k].status = Undefined => filterStatus = "all"

\* A status filter is active over a snapshot that holds a task without a
\* status next to tasks that match and tasks that do not.
C1_Witness ==
  /\ filterStatus = "pending"
  /\ \E i, j, k \in 1..Len(todos) :
       /\ todos[i].status = Undefined
       /\ todos[j].status = "pending"
       /\ todos[k].status = "completed"
  /\ Len(filteredTodos) = 1
\* The status the task with identifier t has in the task sequence s.
StatusIn(s, t) == LET i == CHOOSE i \in 1..Len(s) : s[i].id = t IN s[i].status

\* The toggles activated on row t, and every other mutation aimed at it.
Toggles(t) == {m \in muts : m.kind = "update" /\ m.row = t}
OtherMutations(t) == {m \in muts : m.kind # "update" /\ (m.row = t \/ m.id = t)}

\* Task t has been toggled exactly twice, both updates have succeeded, and
\* nothing else was aimed at it.
ToggledTwice(t) ==
  /\ Cardinality(Toggles(t)) = 2
  /\ \A m \in Toggles(t) : m.phase \in Succeeded
  /\ OtherMutations(t) = {}

RoundTrip(t) == t \in Ids(store) /\ StatusIn(store, t) = StatusIn(store0, t)

\* C2 as stated: two toggles of a task, once both updates have succeeded,
\* leave the gateway's status of the task equal to its original status, for
\* every interleaving of the activations with the responses.
C2_RoundTripAlways == \A t \in Ids(store0) : ToggledTwice(t) => RoundTrip(t)

\* C2, amended: two toggles of a task, each activated when every earlier
\* toggle of it has succeeded and been re-read into the list, leave the
\* gateway's status of the task equal to its original status once both
\* updates have succeeded.
C2_RoundTripSequential ==
  \A t \in Ids(store0) :
    (ToggledTwice(t) /\ \A m \in Toggles(t) : ~m.stale) => RoundTrip(t)

\* A task toggled twice, the second time on a re-read list, both updates
\* succeeded.
C2_Witness ==
  \E t \in Ids(store0) :
    ToggledTwice(t) /\ (\A m \in Toggles(t) : ~m.stale) /\ RoundTrip(t)

\* The rows whose confirmed delete the gateway has served.
DeletedRows ==
  {m.row : m \in {x \in muts : x.kind = "delete" /\ x.phase \in {"ok"} \cup Succeeded}}

\* C3: once a confirmed delete of a row's task has been served, the task is
\* not in the gateway's collection and in no list result served from then
\* on; serving a delete request for a task that is no longer there leaves
\* the collection as it is.
C3_DeleteIsFinal ==
  /\ [](\A t \in DeletedRows : t \notin Ids(store))
  /\ [][(fetch.phase = "sent" /\ fetch'.phase = "ok")
          => \A t \in DeletedRows : t \notin Ids(fetch'.result)]_vars
  /\ [][\A m \in muts :
          (/\ m.kind = "delete" /\ m.phase = "sent" /\ m.id \notin Ids(store)
           /\ [m EXCEPT !.phase = "ok"] \in muts')
          => store' = store]_vars

\* The same row deleted twice from a stale list, both requests served.
C3_Witness ==
  \E m1, m2 \in muts :
    /\ m1.kind = "delete" /\ m2.kind = "delete"
    /\ m1.row = m2.row /\ m1.mid < m2.mid
    /\ m1.phase \in Succeeded /\ m2.phase \in Succeeded
    /\ queryData.defined /\ m1.row \notin Ids(todos)
\* The create requests issued so far, and those still in flight.
Creates == {m \in muts : m.kind = "create"}
Outstanding == {m \in Creates : m.phase \in InFlight}

\* Nothing has been aimed at the task with identifier t.
Untouched(t) == \A m \in muts : m.kind = "create" \/ (m.row # t /\ m.id # t)

\* C4: once a create request with body b has succeeded and the list response
\* of the re-fetch its success asked for has landed, the snapshot holds the
\* created task with body b and status pending, and the task is rendered
\* under the filters `all` and `pending` (unless the user has toggled or
\* deleted it meanwhile).
C4_CreatedTaskAppears ==
  \A m \in Creates :
    (m.phase = "shown" /\ Untouched(m.id)) =>
      LET task == [id |-> m.id, body |-> m.body, status |-> "pending"]
      IN \A f \in {"all", "pending"} :
           \E i \in 1..Len(FilterTodos(todos, f)) : FilterTodos(todos, f)[i] = task

\* C5: a step that issues a create request takes its body from the
\* pending-input and leaves the pending-input empty; a step in which a create
\* request succeeds or fails leaves the pending-input as it is.
C5_SubmitClearsInput ==
  /\ [][(\E m \in muts' \ muts : m.kind = "create" /\ m.mid = nextMid)
          => /\ todoBody' = ""
             /\ \A m \in muts' \ muts :
                  m.kind = "create" /\ m.body = todoBody /\ m.phase = "sent"]_vars
  /\ [][(\E m \in Outstanding, n \in muts' :
            n.mid = m.mid /\ n.phase \in {"done", "failed"})
          => todoBody' = todoBody]_vars

\* A text was submitted twice; one request failed, the other succeeded, and
\* the input is empty.
C5_Witness ==
  /\ todoBody = ""
  /\ \E m1, m2 \in Creates :
       /\ m1.body = "a" /\ m1.phase = "failed"
       /\ m2.body = "a" /\ m2.phase \in Succeeded

\* C6: a step in which confirm() answers no issues no request and changes
\* neither the gateway's collection, the snapshot, the filter, the rendered
\* list nor anything else of the client.
C6_DeclineChangesNothing ==
  [][answered' = "no"
       => /\ UNCHANGED <<store, nextId, queryData, fetch, filterStatus, muts,
                         todoBody, createCurrent>>
          /\ filteredTodos' = filteredTodos]_vars

\* The prompt has just been declined on a rendered row.
C6_Witness == answered = "no" /\ Len(filteredTodos) > 0 /\ muts # {}

\* What a handler of the form does, seen from outside: the requests it
\* issues and the pending-input it leaves.
SubmitEffect(f) ==
  [requests |-> {[kind |-> m.kind, id |-> m.id, status |-> m.status, body |-> m.body] :
                   m \in f.muts \ muts},
   todoBody |-> f.todoBody]

OneCreate == [requests |-> {createTodo(todoBody)}, todoBody |-> ""]

\* C7 as stated: in every reachable state, Enter and a click on the Add
\* button each issue exactly one create request with the pending-input as
\* body and leave the pending-input empty.
C7_EnterAsClickAlways ==
  /\ SubmitEffect(handleKeyDown("Enter")) = OneCreate
  /\ SubmitEffect(buttonClick) = OneCreate

\* C7, amended: in every reachable state in which the Add button is enabled,
\* Enter and a click on the button have the same effect, one create request
\* with the pending-input as body and an empty pending-input; Enter has that
\* effect in every state.
C7_EnterAsClickWhenEnabled ==
  /\ SubmitEffect(handleKeyDown("Enter")) = OneCreate
  /\ ~isCreatingTodo => SubmitEffect(buttonClick) = SubmitEffect(handleKeyDown("Enter"))

\* The same text has been submitted once with Enter and once with the
\* button, and the button is enabled again.
C7_Witness ==
  /\ ~isCreatingTodo
  /\ todoBody = "a"
  /\ \E m1, m2 \in Creates :
       m1.via = "enter" /\ m2.via = "button" /\ m1.body = "a" /\ m2.body = "a"

\* C8 as stated: while any create request is outstanding the Add button is
\* disabled.
C8_DisabledWhileAnyOutstanding == Outstanding # {} => isCreatingTodo

\* C8, amended: the Add button is disabled exactly while the create request
\* issued last is outstanding; as long as every create request came from the
\* button, at most one is outstanding at a time.
C8_DisabledWhileLatestOutstanding ==
  /\ isCreatingTodo <=> \E m \in Outstanding : \A n \in Creates : n.mid <= m.mid
  /\ (\A m \in Creates : m.via = "button") => Cardinality(Outstanding) <= 1

\* A second click-issued request is outstanding after the first one settled.
C8_Witness ==
  /\ isCreatingTodo
  /\ \E m1, m2 \in Creates :
       /\ m1.via = "button" /\ m2.via = "button"
       /\ m1.phase \notin InFlight /\ m2.phase \in InFlight

\* C9: a new list request is issued only in a step in which the client
\* observes the success of a mutation, one request per success; a step that
\* issues a mutation leaves the list request alone; list requests never
\* outnumber the initial fetch plus the successes observed.
C9_RefetchOnlyOnSuccess ==
  /\ [](fetch.seq <= 1 + Cardinality({m \in muts : m.phase \in Succeeded}))
  /\ [][fetch'.seq # fetch.seq
          => /\ fetch'.seq = fetch.seq + 1
             /\ \E m \in muts : m.phase = "ok" /\ [m EXCEPT !.phase = "done"] \in muts']_vars
  /\ [][Cardinality(muts') > Cardinality(muts) => fetch' = fetch]_vars

\* Two mutations of different kinds have succeeded and each caused a list
\* request.
C9_Witness ==
  /\ fetch.seq = 3
  /\ \E m1, m2 \in muts :
       m1.kind # m2.kind /\ m1.phase \in Succeeded /\ m2.phase \in Succeeded

\* C10: a step in which a mutation fails issues no list request and leaves
\* the snapshot, the filter and the rendered list as they are, and so does
\* the step that issued the mutation.
C10_FailureChangesNothing ==
  /\ [][(\E m \in muts : m.phase = "sent" /\ [m EXCEPT !.phase = "failed"] \in muts')
          => /\ UNCHANGED <<queryData, filterStatus, fetch>>
             /\ filteredTodos' = filteredTodos]_vars
  /\ [][Cardinality(muts') > Cardinality(muts)
          => /\ UNCHANGED <<queryData, filterStatus, fetch>>
             /\ filteredTodos' = filteredTodos]_vars

\* Two mutations of different kinds have failed, and the list on screen is
\* still the one of the initial fetch.
C10_Witness ==
  /\ fetch = [phase |-> "idle", result |-> <<>>, seq |-> 1]
  /\ Len(filteredTodos) > 0
  /\ \E m1, m2 \in muts :
       m1.kind # m2.kind /\ m1.phase = "failed" /\ m2.phase = "failed"

\* A step in which the list request in flight fails.
ListFails == fetch.phase = "sent" /\ fetch'.phase = "idle"

\* C11 (as stated): after a step in which a list request fails, the initial
\* one or a re-fetch, the rendered list is empty under every filter.
C11_FailureRendersEmpty ==
  [][ListFails => \A f \in Filters : FilterTodos(todos', f) = <<>>]_vars

\* C11 (amended): a step in which a list request fails leaves the snapshot,
\* the filter, the pending input and the mutations as they are; the rendered
\* list is empty under every filter when no list response has landed before,
\* and is the filtered view of the previous snapshot otherwise.
C11_FailureKeepsSnapshot ==
  [][ListFails
       => /\ UNCHANGED <<queryData, filterStatus, todoBody, muts, createCurrent>>
          /\ ~queryData.defined => \A f \in Filters : FilterTodos(todos', f) = <<>>
          /\ \A f \in Filters : FilterTodos(todos', f) = FilterTodos(todos, f)]_vars

\* The re-fetch caused by a successful mutation has failed, and the list on
\* screen still shows the tasks of the earlier response.
C11_Witness ==
  /\ fetch.phase = "idle" /\ fetch.seq = 2
  /\ \E m \in muts : m.phase = "done"
  /\ Len(filteredTodos) > 0

\* Nothing is in flight: the list request is settled and every mutation
\* issued has had its success observed.
Quiescent == fetch.phase = "idle" /\ \A m \in muts : m.phase \in Succeeded

\* C12: in every state in which no mutation and no list request is in
\* flight, every request issued so far having succeeded, the snapshot is the
\* gateway's collection: same tasks, same statuses, same order.
C12_QuiescentConsistency ==
  Quiescent => queryData.defined /\ todos = store

\* A step that issues a mutation, or in which the success or the failure of
\* one is observed.
MutationStep ==
  \/ Cardinality(muts') > Cardinality(muts)
  \/ \E m \in muts : m.phase = "ok" /\ [m EXCEPT !.phase = "done"] \in muts'
  \/ \E m \in muts : m.phase = "sent" /\ [m EXCEPT !.phase = "failed"] \in muts'

\* C13: issuing a toggle, delete or create request, and observing the
\* success or failure of a mutation, leave the snapshot as it is; the
\* snapshot changes only in a step in which a list response lands, and then
\* it is exactly that response.
C13_SnapshotOnlyReplaced ==
  /\ [][MutationStep => queryData' = queryData]_vars
  /\ [][queryData' # queryData
          => /\ fetch.phase = "ok" /\ fetch'.phase = "idle"
             /\ queryData' = [defined |-> TRUE, value |-> fetch.result]]_vars

\* The response of the re-fetch after a delete has landed: the snapshot has
\* lost a row it held before.
C13_Witness ==
  /\ queryData.defined
  /\ \E m \in muts : m.kind = "delete" /\ m.phase = "shown"
  /\ \E i \in 1..Len(store0) : store0[i].id \notin Ids(todos)

\* The create requests the gateway has carried out.
Served == {m \in Creates : m.phase = "ok" \/ m.phase \in Succeeded}

\* C14: while a create request is in flight, Enter issues one more create
\* request with the pending-input as body, so several can be outstanding at
\* once; every create request the gateway has carried out has a task of its
\* own in the gateway's collection, with its own identifier and its body.
C14_EnterNotGated ==
  /\ isCreatingTodo =>
        LET issued == handleKeyDown("Enter").muts \ muts
        IN  /\ Cardinality(issued) = 1
            /\ \A m \in issued :
                 m.kind = "create" /\ m.body = todoBody /\ m.phase = "sent"
  /\ \A m \in Served :
       \E i \in 1..Len(store) : store[i].id = m.id /\ store[i].body = m.body
  /\ \A m1, m2 \in Served : m1 # m2 => m1.id # m2.id
  /\ Len(store) = Len(store0) + Cardinality(Served)

\* Two create requests issued with Enter are outstanding at once, and the
\* gateway has added a task for each.
C14_Witness ==
  \E m1, m2 \in Outstanding :
    /\ m1.mid < m2.mid /\ m1.via = "enter" /\ m2.via = "enter"
    /\ m1.phase = "ok" /\ m2.phase = "ok"
    /\ Len(store) = Len(store0) + 2

\* The other status: completed for pending, pending for anything else.
Opposite(status) == IF status = "pending" THEN "completed" ELSE "pending"

\* The mutation requests a step issues.
Issued == {m \in muts' : m.mid > Cardinality(muts)}

\* C15: every update-status request a step issues carries the identifier of
\* the activated row, which is a row of the rendered list, and a status in
\* {pending, completed} that is the opposite of the status this row has in
\* the snapshot; for a row whose status is missing the handler asks for
\* pending.
C15_ToggleFromSnapshot ==
  /\ [](\A s \in Statuses \cup {Undefined} :
          LET input == handleClickToUpdateStatus(1, s)
          IN  /\ input.kind = "update" /\ input.id = 1
              /\ input.status \in Statuses /\ input.status # s
              /\ s = Undefined => input.status = "pending")
  /\ [][\A m \in Issued :
          m.kind = "update"
            => /\ m.id = m.row
               /\ m.row \in Ids(filteredTodos)
               /\ m.status \in Statuses
               /\ m.status = Opposite(StatusIn(todos, m.row))]_vars

\* A toggle has been issued from a snapshot that is behind the gateway: the
\* status it asks for is the opposite of the snapshot's status and is the
\* status the gateway's task already has.
C15_Witness ==
  \E m1, m2 \in muts :
    /\ m1.kind = "update" /\ m2.kind = "update"
    /\ m1.row = m2.row /\ m1.mid < m2.mid
    /\ m1.phase \in {"ok", "done"} /\ m2.phase = "sent"
    /\ m2.row \in Ids(todos) /\ m2.row \in Ids(store)
    /\ m2.status = Opposite(StatusIn(todos, m2.row))
    /\ m2.status = StatusIn(store, m2.row)

\* C16: a step in which the delete affordance of a row is activated issues
\* no update-status request: when the prompt is confirmed it issues exactly
\* one request, a delete for the identifier of that row, a row of the
\* rendered list; when the prompt is declined it issues nothing.
C16_DeleteNeverToggles ==
  [][answered' \in {"yes", "no"}
       => /\ \A m \in Issued :
               m.kind = "delete" /\ m.id = m.row /\ m.row \in Ids(filteredTodos)
          /\ Cardinality(Issued) = (IF answered' = "yes" THEN 1 ELSE 0)
          /\ \A m \in muts : m \in muts']_vars

\* The prompt has just been confirmed: the request issued is a delete for
\* the row, and no update-status request has ever been aimed at that row.
C16_Witness ==
  /\ answered = "yes"
  /\ \E m \in muts :
       /\ m.mid = Cardinality(muts) /\ m.kind = "delete" /\ m.phase = "sent"
       /\ m.id = m.row /\ m.row \in Ids(filteredTodos)
       /\ Toggles(m.row) = {}

\* C17: a step that changes the active filter changes nothing else: the
\* gateway, the snapshot, the list request, the pending input and the
\* mutations stay as they are, and the rendered list is the filtered view
\* of the unchanged snapshot under the new filter.
C17_TabChangesOnlyFilter ==
  [][filterStatus' # filterStatus
       => /\ UNCHANGED <<store, nextId, queryData, fetch, todoBody, muts,
                         createCurrent>>
          /\ filterStatus' \in Filters
          /\ filteredTodos' = FilterTodos(todos, filterStatus')]_vars

\* A tab other than `all` is selected and hides part of the snapshot, while
\* a mutation and a list request are in flight and the input holds text.
C17_Witness ==
  /\ filterStatus # "all"
  /\ 0 < Len(filteredTodos) /\ Len(filteredTodos) < Len(todos)
  /\ todoBody # ""
  /\ fetch.phase = "sent"
  /\ \E m \in muts : m.phase = "sent"

\* C18: when the toggle of a task is the only mutation of the run, has
\* succeeded, and the response of its re-fetch has landed, the task is
\* absent from the filtered view under the status it had and present under
\* the opposite status, the view under each filter lists the tasks in the
\* order the gateway returns them, and with the filter still set to the old
\* status the rendered list lacks the task; the steps that issue the toggle
\* and that land a list response leave the filter as it is.
C18_ToggleMovesTask ==
  /\ [](\A m \in muts :
          (muts = {m} /\ m.kind = "update" /\ m.phase = "shown") =>
            LET t == m.row
                s == StatusIn(store0, t)
            IN  /\ s \in Statuses /\ m.status = Opposite(s)
                /\ t \notin Ids(FilterTodos(todos, s))
                /\ t \in Ids(FilterTodos(todos, m.status))
                /\ \A f \in Filters :
                     FilterTodos(todos, f) = FilterTodos(GatewayList(store), f)
                /\ filterStatus = s => t \notin Ids(filteredTodos))
  /\ [][((\E m \in Issued : m.kind = "update") \/ queryData' # queryData)
          => filterStatus' = filterStatus]_vars

\* The filter is the status the task had; the toggle has succeeded and the
\* response of its re-fetch has landed: the rendered list is empty and the
\* view under the opposite filter holds two tasks, the toggled one included.
C18_Witness ==
  \E m \in muts :
    /\ muts = {m} /\ m.kind = "update" /\ m.phase = "shown"
    /\ filterStatus = StatusIn(store0, m.row)
    /\ filteredTodos = <<>>
    /\ Len(FilterTodos(todos, m.status)) = 2
    /\ m.row \in Ids(FilterTodos(todos, m.status))

\* C19: the active filter is `all` in the initial state and is one of all,
\* pending, completed in every reachable state; a step that changes
\* anything but the filter (a toggle, a delete activation, typing, a create,
\* a response of the gateway, a landing or failing list response) leaves the
\* filter as it is.
C19_FilterOnlyByTab ==
  /\ filterStatus = "all"
  /\ [](filterStatus \in Filters)
  /\ [][(\/ <<store, nextId, queryData, fetch, todoBody, muts, createCurrent>>'
               # <<store, nextId, queryData, fetch, todoBody, muts, createCurrent>>
          \/ answered' # "none")
          => filterStatus' = filterStatus]_vars

\* With a tab other than `all` selected, a toggle and a create have
\* succeeded and the responses of their re-fetches have landed.
C19_Witness ==
  /\ filterStatus # "all"
  /\ fetch.phase = "idle" /\ fetch.seq >= 2
  /\ \E m1, m2 \in muts :
       /\ m1.kind = "update" /\ m2.kind = "create"
       /\ m1.phase = "shown" /\ m2.phase = "shown"

====
